---- MODULE Spec2Model ----
(***************************************************************************)
(* Model of inflections::case (src/src/case.rs).                           *)
(*                                                                         *)
(* A string is a sequence of characters; a character is a one-letter       *)
(* string.  Every conversion to_X is an iterator pipeline that `collect`   *)
(* drains; the model runs the pipeline one adaptor at a time, one call of  *)
(* the adaptor's `next` per step.  The adaptors are pure, so draining them *)
(* stage by stage yields the same characters as the lazy interleaving, and *)
(* a Peekable over a pure source is the sequence of characters it has not  *)
(* yet handed out (peek = its head, next = head and tail).                 *)
(***************************************************************************)
EXTENDS Integers, Sequences, FiniteSets, TLC

\* ------------------------------------------------------------------ bounds
\* Longest free-form input string.
MaxLen == 3
\* Most words in a word sequence that is rendered in the doc tests' styles.
MaxWords == 2
\* Longest word of such a word sequence.
MaxWordLen == 2

\* --------------------------------------------------------------- characters
\* Option::None, for Option<char> values.
None == "None"

\* ASCII letters, one digit, the three separators.
Lower == {"a", "b"}
Upper == {"A", "B"}
Digits == {"1"}
Separators == {" ", "-", "_"}
Ascii == Lower \cup Upper \cup Digits \cup Separators
\* One non-ASCII character whose uppercase mapping is two characters.
Alphabet == Ascii \cup {"ß"}

\* char::is_lowercase
is_lowercase(c) == c \in {"a", "b", "s", "ß"}

\* char::is_uppercase
is_uppercase(c) == c \in {"A", "B", "S"}

\* char::to_lowercase, as the sequence of characters the iterator yields.
to_lowercase(c) ==
  CASE c = "A" -> <<"a">>
    [] c = "B" -> <<"b">>
    [] c = "S" -> <<"s">>
    [] OTHER   -> <<c>>

\* char::to_uppercase, as the sequence of characters the iterator yields.
to_uppercase(c) ==
  CASE c = "a" -> <<"A">>
    [] c = "b" -> <<"B">>
    [] c = "s" -> <<"S">>
    [] c = "ß" -> <<"S", "S">>
    [] OTHER   -> <<c>>

\* ------------------------------------------------------------------ helpers
\* Checks if a character is a separator.
is_separator(c) == c = " " \/ c = "-" \/ c = "_"

\* swap_separator with is_separator narrowed to the space.
swap_separator_OnlySpace(c, sep) == IF c = " " THEN sep ELSE c

\* Swaps a separator with the separator of choice.
swap_separator(c, sep) == IF is_separator(c) THEN sep ELSE c

\* iter.peek().cloned().map_or(false, is_separator)
peek_is_separator(it) == it # <<>> /\ is_separator(Head(it))

\* Peekable::peek().cloned()
peek(it) == IF it = <<>> THEN None ELSE Head(it)

\* .map(|c| swap_separator(c, sep)) over a whole string.
MapSwap(s, sep) == [i \in 1..Len(s) |-> swap_separator(s[i], sep)]

\* The closure handed to flat_map: char::to_lowercase or char::to_uppercase,
\* named by f.
apply(f, c) == IF f = "to_lowercase" THEN to_lowercase(c) ELSE to_uppercase(c)

\* .flat_map(f) over a whole string.
RECURSIVE FlatMap(_, _)
FlatMap(s, f) == IF s = <<>> THEN <<>> ELSE apply(f, Head(s)) \o FlatMap(Tail(s), f)

\* ------------------------------------------------------------ scan_to_camel
\* scan_to_camel without the lowercasing branch: a character that is neither
\* capitalized nor a separator is returned as it is.
scan_to_camel_NoLowercase(state, curr) ==
  IF state[1] THEN
    [state |-> <<FALSE, curr>>, str |-> to_uppercase(curr)]
  ELSE IF is_separator(curr) THEN
    [state |-> <<TRUE, curr>>, str |-> <<>>]
  ELSE
    [state |-> <<FALSE, curr>>, str |-> <<curr>>]

\* scan_to_camel with the test of the last character inverted: a character
\* is lowercased when the last one was lowercase.
scan_to_camel_Inverted(state, curr) ==
  LET last == state[2] IN
  IF state[1] THEN
    [state |-> <<FALSE, curr>>, str |-> to_uppercase(curr)]
  ELSE IF is_separator(curr) THEN
    [state |-> <<TRUE, curr>>, str |-> <<>>]
  ELSE IF last # None /\ is_lowercase(last) THEN
    [state |-> <<FALSE, curr>>, str |-> to_lowercase(curr)]
  ELSE
    [state |-> <<FALSE, curr>>, str |-> <<curr>>]

\* scan_to_camel that does not mark the state as finished after
\* capitalizing.
scan_to_camel_FlagKept(state, curr) ==
  LET last == state[2] IN
  IF state[1] THEN
    [state |-> <<TRUE, curr>>, str |-> to_uppercase(curr)]
  ELSE IF is_separator(curr) THEN
    [state |-> <<TRUE, curr>>, str |-> <<>>]
  ELSE IF ~ (last # None /\ is_lowercase(last)) THEN
    [state |-> <<FALSE, curr>>, str |-> to_lowercase(curr)]
  ELSE
    [state |-> <<FALSE, curr>>, str |-> <<curr>>]

\* One call of scan_to_camel: the new state (flag, last) and the string
\* it returns.
scan_to_camel(state, curr) ==
  LET last == state[2] IN
  IF state[1] THEN
    [state |-> <<FALSE, curr>>, str |-> to_uppercase(curr)]
  ELSE IF is_separator(curr) THEN
    [state |-> <<TRUE, curr>>, str |-> <<>>]
  ELSE IF ~ (last # None /\ is_lowercase(last)) THEN
    [state |-> <<FALSE, curr>>, str |-> to_lowercase(curr)]
  ELSE
    [state |-> <<FALSE, curr>>, str |-> <<curr>>]

\* .scan(init, scan_to_camel).collect()
RECURSIVE Scan(_, _)
Scan(state, s) ==
  IF s = <<>> THEN <<>>
  ELSE LET r == scan_to_camel(state, Head(s))
       IN  r.str \o Scan(r.state, Tail(s))

\* --------------------------------------------------------------- BreakCamel
\* BreakCamel::next testing !next.is_lowercase() instead of
\* next.is_uppercase().
BreakCamelNext_NotLower(it, sep, b) ==
  IF b THEN [iter |-> it, br |-> FALSE, item |-> sep]
  ELSE IF it = <<>> THEN [iter |-> it, br |-> b, item |-> None]
  ELSE LET curr == Head(it)
           next == peek(Tail(it))
       IN  IF next # None /\ is_lowercase(curr) /\ ~ is_lowercase(next)
           THEN [iter |-> Tail(it), br |-> TRUE, item |-> curr]
           ELSE [iter |-> Tail(it), br |-> b, item |-> curr]

\* BreakCamel::next that never signals a break.
BreakCamelNext_NoBreak(it, sep, b) ==
  IF b THEN [iter |-> it, br |-> FALSE, item |-> sep]
  ELSE IF it = <<>> THEN [iter |-> it, br |-> b, item |-> None]
  ELSE [iter |-> Tail(it), br |-> b, item |-> Head(it)]

\* BreakCamel::next that does not test curr.is_lowercase().
BreakCamelNext_AnyUpper(it, sep, b) ==
  IF b THEN [iter |-> it, br |-> FALSE, item |-> sep]
  ELSE IF it = <<>> THEN [iter |-> it, br |-> b, item |-> None]
  ELSE LET curr == Head(it)
           next == peek(Tail(it))
       IN  IF next # None /\ is_uppercase(next)
           THEN [iter |-> Tail(it), br |-> TRUE, item |-> curr]
           ELSE [iter |-> Tail(it), br |-> b, item |-> curr]

\* BreakCamel::next that also signals a break when nothing follows a
\* lowercase character.
BreakCamelNext_Trailing(it, sep, b) ==
  IF b THEN [iter |-> it, br |-> FALSE, item |-> sep]
  ELSE IF it = <<>> THEN [iter |-> it, br |-> b, item |-> None]
  ELSE LET curr == Head(it)
           next == peek(Tail(it))
       IN  IF is_lowercase(curr) /\ (next = None \/ is_uppercase(next))
           THEN [iter |-> Tail(it), br |-> TRUE, item |-> curr]
           ELSE [iter |-> Tail(it), br |-> b, item |-> curr]

\* BreakCamel::next that leaves br set after emitting the separator.
BreakCamelNext_BrNotCleared(it, sep, b) ==
  IF b THEN [iter |-> it, br |-> b, item |-> sep]
  ELSE IF it = <<>> THEN [iter |-> it, br |-> b, item |-> None]
  ELSE LET curr == Head(it)
           next == peek(Tail(it))
       IN  IF next # None /\ is_lowercase(curr) /\ is_uppercase(next)
           THEN [iter |-> Tail(it), br |-> TRUE, item |-> curr]
           ELSE [iter |-> Tail(it), br |-> b, item |-> curr]

\* One call of BreakCamel::next on (iter, sep, br): the new iter and br and
\* the item returned (None at the end).
BreakCamelNext(it, sep, b) ==
  IF b THEN [iter |-> it, br |-> FALSE, item |-> sep]
  ELSE IF it = <<>> THEN [iter |-> it, br |-> b, item |-> None]
  ELSE LET curr == Head(it)
           next == peek(Tail(it))
       IN  IF next # None /\ is_lowercase(curr) /\ is_uppercase(next)
           THEN [iter |-> Tail(it), br |-> TRUE, item |-> curr]
           ELSE [iter |-> Tail(it), br |-> b, item |-> curr]

\* .break_camel(sep).collect()
RECURSIVE BreakCamel(_, _, _)
BreakCamel(it, sep, b) ==
  LET r == BreakCamelNext(it, sep, b)
  IN  IF r.item = None THEN <<>>
      ELSE <<r.item>> \o BreakCamel(r.iter, sep, r.br)

\* ---------------------------------------------------------- CapitalizeWords
\* Option<ToUppercase>: None, or the characters the iterator has left.
NoUpper == [is_some |-> FALSE, chars |-> <<>>]
SomeUpper(cs) == [is_some |-> TRUE, chars |-> cs]

\* capitalize_words that does not peek at the first character.
capitalize_words_Always(it) == TRUE

\* Extras::capitalize_words: the initial cap flag.
capitalize_words(it) == ~ peek_is_separator(it)

\* One call of CapitalizeWords::next on (iter, cap, upper); passes counts the
\* times the loop was re-entered.
RECURSIVE CapitalizeWordsLoop(_, _, _, _)
CapitalizeWordsLoop(it, c, up, passes) ==
  IF up.is_some /\ up.chars # <<>> THEN
    [iter |-> it, cap |-> c, upper |-> SomeUpper(Tail(up.chars)),
     item |-> Head(up.chars), passes |-> passes]
  ELSE IF it # <<>> THEN
    LET ch == Head(it) IN
    IF c THEN
      CapitalizeWordsLoop(Tail(it), FALSE, SomeUpper(to_uppercase(ch)), passes + 1)
    ELSE
      [iter |-> Tail(it),
       cap |-> IF is_separator(ch) /\ ~ peek_is_separator(Tail(it))
               THEN TRUE ELSE c,
       upper |-> NoUpper, item |-> ch, passes |-> passes]
  ELSE
    [iter |-> it, cap |-> c, upper |-> NoUpper, item |-> None, passes |-> passes]

\* CapitalizeWords::next that keeps only the first character of an uppercase
\* mapping (c.to_uppercase().next() in place of the stored iterator).
CapitalizeWordsNext_FirstOnly(it, c, up) ==
  LET r == CapitalizeWordsLoop(it, c, up, 0)
  IN  IF r.passes > 0 THEN [r EXCEPT !.upper = NoUpper] ELSE r

CapitalizeWordsNext(it, c, up) == CapitalizeWordsLoop(it, c, up, 0)

\* .capitalize_words().collect(), from a given adaptor state.
RECURSIVE CapitalizeWordsRun(_, _, _)
CapitalizeWordsRun(it, c, up) ==
  LET r == CapitalizeWordsNext(it, c, up)
  IN  IF r.item = None THEN <<>>
      ELSE <<r.item>> \o CapitalizeWordsRun(r.iter, r.cap, r.upper)

CapitalizeWords(s) == CapitalizeWordsRun(s, capitalize_words(s), NoUpper)

\* ------------------------------------------------------------- conversions
to_lower_case(string) == FlatMap(string, "to_lowercase")

to_upper_case(string) == FlatMap(string, "to_uppercase")

to_sentence_case(string) ==
  FlatMap(BreakCamel(MapSwap(string, " "), " ", FALSE), "to_lowercase")

to_title_case(string) ==
  CapitalizeWords(FlatMap(BreakCamel(MapSwap(string, " "), " ", FALSE), "to_lowercase"))

to_camel_case(string) == Scan(<<FALSE, None>>, string)

to_pascal_case(string) == Scan(<<TRUE, None>>, string)

to_kebab_case(string) ==
  FlatMap(BreakCamel(MapSwap(string, "-"), "-", FALSE), "to_lowercase")

to_train_case(string) ==
  CapitalizeWords(FlatMap(BreakCamel(MapSwap(string, "-"), "-", FALSE), "to_lowercase"))

to_snake_case(string) ==
  FlatMap(BreakCamel(MapSwap(string, "_"), "_", FALSE), "to_lowercase")

to_constant_case(string) ==
  FlatMap(BreakCamel(MapSwap(string, "_"), "_", FALSE), "to_uppercase")

is_lower_case(string) == string = to_lower_case(string)
is_upper_case(string) == string = to_upper_case(string)
is_sentence_case(string) == string = to_sentence_case(string)
is_title_case(string) == string = to_title_case(string)
is_camel_case(string) == string = to_camel_case(string)
is_pascal_case(string) == string = to_pascal_case(string)
is_kebab_case(string) == string = to_kebab_case(string)
is_train_case(string) == string = to_train_case(string)
is_snake_case(string) == string = to_snake_case(string)
is_constant_case(string) == string = to_constant_case(string)

\* The ten conventions.
Conventions == {"lower", "upper", "sentence", "title", "camel", "pascal",
                "kebab", "train", "snake", "constant"}

to_case(X, s) ==
  CASE X = "lower"    -> to_lower_case(s)
    [] X = "upper"    -> to_upper_case(s)
    [] X = "sentence" -> to_sentence_case(s)
    [] X = "title"    -> to_title_case(s)
    [] X = "camel"    -> to_camel_case(s)
    [] X = "pascal"   -> to_pascal_case(s)
    [] X = "kebab"    -> to_kebab_case(s)
    [] X = "train"    -> to_train_case(s)
    [] X = "snake"    -> to_snake_case(s)
    [] X = "constant" -> to_constant_case(s)

is_case(X, s) ==
  CASE X = "lower"    -> is_lower_case(s)
    [] X = "upper"    -> is_upper_case(s)
    [] X = "sentence" -> is_sentence_case(s)
    [] X = "title"    -> is_title_case(s)
    [] X = "camel"    -> is_camel_case(s)
    [] X = "pascal"   -> is_pascal_case(s)
    [] X = "kebab"    -> is_kebab_case(s)
    [] X = "train"    -> is_train_case(s)
    [] X = "snake"    -> is_snake_case(s)
    [] X = "constant" -> is_constant_case(s)

\* The separators with to_kebab_case handing over the underscore.
separator_of_KebabUnderscore(X) ==
  CASE X \in {"sentence", "title"} -> " "
    [] X = "train"                 -> "-"
    [] OTHER                       -> "_"

\* The separator a conversion hands to swap_separator and break_camel.
separator_of(X) ==
  CASE X \in {"sentence", "title"} -> " "
    [] X \in {"kebab", "train"}    -> "-"
    [] OTHER                       -> "_"

\* The case mapping a conversion hands to flat_map.
fold_of(X) == IF X \in {"upper", "constant"} THEN "to_uppercase" ELSE "to_lowercase"

\* The conversions built on break_camel, and those ending in capitalize_words.
Normalized == {"sentence", "title", "kebab", "train", "snake", "constant"}
Capitalized == {"title", "train"}

\* ------------------------------------------------------- doc-test renderings
\* The nine ways the doc tests write one sequence of words.
Styles == {"lower space", "UPPER SPACE", "Cap Space", "camel", "Pascal",
           "lower-hyphen", "Cap-Hyphen", "lower_underscore", "UPPER_UNDERSCORE"}

\* A word with its first letter uppercased.
Capitalize(w) == IF w = <<>> THEN w ELSE to_uppercase(Head(w)) \o Tail(w)

\* The i-th word of ws as the style writes it.
StyledWord(w, i, st) ==
  CASE st \in {"lower space", "lower-hyphen", "lower_underscore"} -> w
    [] st \in {"UPPER SPACE", "UPPER_UNDERSCORE"} -> FlatMap(w, "to_uppercase")
    [] st \in {"Cap Space", "Cap-Hyphen", "Pascal"} -> Capitalize(w)
    [] st = "camel" -> IF i = 1 THEN w ELSE Capitalize(w)

\* What the style writes between two words.
StyleJoin(st) ==
  CASE st \in {"lower space", "UPPER SPACE", "Cap Space"} -> <<" ">>
    [] st \in {"lower-hyphen", "Cap-Hyphen"} -> <<"-">>
    [] st \in {"lower_underscore", "UPPER_UNDERSCORE"} -> <<"_">>
    [] OTHER -> <<>>

RECURSIVE RenderFrom(_, _, _)
RenderFrom(ws, i, st) ==
  IF i > Len(ws) THEN <<>>
  ELSE (IF i = 1 THEN <<>> ELSE StyleJoin(st))
       \o StyledWord(ws[i], i, st) \o RenderFrom(ws, i + 1, st)

\* The word sequence ws written in style st.
Render(ws, st) == RenderFrom(ws, 1, st)

\* The style each word-aware convention writes.
StyleOf(X) ==
  CASE X = "sentence" -> "lower space"
    [] X = "title"    -> "Cap Space"
    [] X = "camel"    -> "camel"
    [] X = "pascal"   -> "Pascal"
    [] X = "kebab"    -> "lower-hyphen"
    [] X = "train"    -> "Cap-Hyphen"
    [] X = "snake"    -> "lower_underscore"
    [] X = "constant" -> "UPPER_UNDERSCORE"

\* ------------------------------------------------------------------- inputs
\* All strings over S of length lo..hi.
StringsOver(S, lo, hi) == UNION {[1..n -> S] : n \in lo..hi}

Strings == StringsOver(Alphabet, 0, MaxLen)
\* The words: one lowercase letter, repeated.
Words == {[i \in 1..n |-> c] : n \in 1..MaxWordLen, c \in Lower}
WordSeqs == StringsOver(Words, 1, MaxWords)

\* -------------------------------------------------------------------- state
VARIABLES
  string,    \* the argument of the call
  words,     \* the word sequence the argument renders (<<>> for a free string)
  style,     \* the style it is rendered in ("raw" for a free string)
  fn,        \* the convention X of the running is_X and the to_X it calls
  pc,        \* the adaptor being drained
  iter,      \* the adaptor's source: the characters not yet taken from it
  br,        \* BreakCamel.br
  cap,       \* CapitalizeWords.cap
  upper,     \* CapitalizeWords.upper
  state,     \* the scan state (capitalize next, last character)
  out,       \* the characters the adaptor has produced
  result,    \* the String returned by to_X
  accepted   \* the bool returned by is_X

vars == <<string, words, style, fn, pc, iter, br, cap, upper, state,
          out, result, accepted>>

Init ==
  /\ \/ /\ string \in Strings
        /\ words = <<>>
        /\ style = "raw"
     \/ /\ words \in WordSeqs
        /\ style \in Styles
        /\ string = Render(words, style)
  /\ fn = "none"
  /\ pc = "call"
  /\ iter = <<>>
  /\ br = FALSE
  /\ cap = FALSE
  /\ upper = NoUpper
  /\ state = <<FALSE, None>>
  /\ out = <<>>
  /\ result = <<>>
  /\ accepted = FALSE

\* is_X(string) is called and calls to_X(string): the pipeline is built.
Call(X) ==
  /\ pc = "call"
  /\ fn' = X
  /\ out' = <<>>
  /\ IF X \in {"camel", "pascal"} THEN
       /\ pc' = "scan"
       /\ iter' = string
       /\ state' = <<X = "pascal", None>>
       /\ br' = br
     ELSE IF X \in Normalized THEN
       /\ pc' = "break_camel"
       /\ iter' = MapSwap(string, separator_of(X))
       /\ br' = FALSE
       /\ state' = state
     ELSE
       /\ pc' = "flat_map"
       /\ iter' = string
       /\ UNCHANGED <<br, state>>
  /\ UNCHANGED <<string, words, style, cap, upper, result, accepted>>

\* One call of the scan adaptor's next: scan_to_camel on the next character.
ScanNext ==
  /\ pc = "scan"
  /\ IF iter = <<>> THEN
       /\ pc' = "collected"
       /\ UNCHANGED <<iter, state, out>>
     ELSE
       LET r == scan_to_camel(state, Head(iter)) IN
       /\ state' = r.state
       /\ out' = out \o r.str
       /\ iter' = Tail(iter)
       /\ pc' = pc
  /\ UNCHANGED <<string, words, style, fn, br, cap, upper, result, accepted>>

\* One call of BreakCamel::next; at the end flat_map takes its output.
BreakCamelStep ==
  /\ pc = "break_camel"
  /\ LET r == BreakCamelNext(iter, separator_of(fn), br) IN
     IF r.item = None THEN
       /\ pc' = "flat_map"
       /\ iter' = out
       /\ out' = <<>>
       /\ br' = r.br
     ELSE
       /\ pc' = pc
       /\ iter' = r.iter
       /\ br' = r.br
       /\ out' = Append(out, r.item)
  /\ UNCHANGED <<string, words, style, fn, cap, upper, state, result, accepted>>

\* One character through flat_map; at the end capitalize_words (if the
\* conversion has it) takes the output.
FlatMapNext ==
  /\ pc = "flat_map"
  /\ IF iter # <<>> THEN
       /\ out' = out \o apply(fold_of(fn), Head(iter))
       /\ iter' = Tail(iter)
       /\ UNCHANGED <<pc, cap, upper>>
     ELSE IF fn \in Capitalized THEN
       /\ pc' = "capitalize_words"
       /\ iter' = out
       /\ cap' = capitalize_words(out)
       /\ upper' = NoUpper
       /\ out' = <<>>
     ELSE
       /\ pc' = "collected"
       /\ UNCHANGED <<iter, out, cap, upper>>
  /\ UNCHANGED <<string, words, style, fn, br, state, result, accepted>>

\* One call of CapitalizeWords::next.
CapitalizeWordsStep ==
  /\ pc = "capitalize_words"
  /\ LET r == CapitalizeWordsNext(iter, cap, upper) IN
     /\ iter' = r.iter
     /\ cap' = r.cap
     /\ upper' = r.upper
     /\ IF r.item = None THEN
          /\ pc' = "collected"
          /\ out' = out
        ELSE
          /\ pc' = pc
          /\ out' = Append(out, r.item)
  /\ UNCHANGED <<string, words, style, fn, br, state, result, accepted>>

\* collect() has the String: to_X returns it.
Return ==
  /\ pc = "collected"
  /\ pc' = "return"
  /\ result' = out
  /\ UNCHANGED <<string, words, style, fn, iter, br, cap, upper, state, out, accepted>>

\* is_X compares its argument with what to_X returned.
IsReturn ==
  /\ pc = "return"
  /\ pc' = "answer"
  /\ accepted' = (string = result)
  /\ UNCHANGED <<string, words, style, fn, iter, br, cap, upper, state, out, result>>

Next ==
  \/ \E X \in Conventions : Call(X)
  \/ ScanNext
  \/ BreakCamelStep
  \/ FlatMapNext
  \/ CapitalizeWordsStep
  \/ Return
  \/ IsReturn

Spec == Init /\ [][Next]_vars

\* The call runs to its end: collect() keeps calling next, and is_X returns
\* once to_X has.
FairSpec == Spec /\ WF_vars(Next)

\* to_X has returned / is_X has returned.
Returned(X) == pc = "return" /\ fn = X
Answered(X) == pc = "answer" /\ fn = X

\* ------------------------------------------------------- vocabulary of the
\* properties
Letters == Lower \cup Upper
IsAscii(s) == \A i \in 1..Len(s) : s[i] \in Ascii
LettersAndSeparators(s) == \A i \in 1..Len(s) : s[i] \in Letters \cup Separators
NoSeparator(s) == \A i \in 1..Len(s) : s[i] \notin Separators

\* The input character at i is lowercase and the one after it is uppercase.
CamelBoundary(s, i) ==
  i \in 1..(Len(s) - 1) /\ s[i] \in {"a", "b", "ß"} /\ s[i + 1] \in Upper

\* Where the input character at i stands in the normalizer's output: one
\* place further for every camel boundary before it.
Pos(s, i) == i + Cardinality({j \in 1..(i - 1) : CamelBoundary(s, j)})

\* What break_camel was given, and the state in which it has handed out
\* everything it will.
Swapped == MapSwap(string, separator_of(fn))
BreakCamelDone == pc = "break_camel" /\ iter = <<>> /\ ~ br

\* No separator of s starts s or follows another separator.
SeparatorsStandAlone(s) ==
  \A i \in 1..Len(s) : s[i] \in Separators => (i > 1 /\ s[i - 1] \notin Separators)

\* C1 (as stated): every one of the ten conversions is idempotent on ASCII
\* input: converting the returned string again returns it unchanged.  It is
\* stated on the inputs whose separators each follow a non-separator, where
\* scan_to_camel emits no separator and capitalizes no first character, so
\* that the failure shown is that of idempotence alone.
C1_IdempotentAllTen ==
  \A X \in Conventions :
    (Returned(X) /\ IsAscii(string) /\ SeparatorsStandAlone(string))
      => to_case(X, result) = result

\* C1 (amended): the eight conversions other than to_camel_case and
\* to_pascal_case are idempotent on ASCII input.
C1_IdempotentExceptCamelPascal ==
  \A X \in Conventions \ {"camel", "pascal"} :
    (Returned(X) /\ IsAscii(string)) => to_case(X, result) = result

\* C1 witness: to_title_case has rewritten a camelCase input.
C1_Witness ==
  /\ Returned("title")
  /\ string = <<"a", "B">>
  /\ result = <<"A", " ", "B">>

\* C2 (as stated): whatever style a word sequence is written in, each
\* word-aware conversion returns that convention's rendering of the words.
C2_CrossConventionAllWords ==
  \A X \in Conventions \ {"lower", "upper"} :
    (Returned(X) /\ style \in Styles) => result = Render(words, StyleOf(X))

\* C2 (amended): the same, for word sequences whose words all have at least
\* two letters.
C2_CrossConventionLongWords ==
  \A X \in Conventions \ {"lower", "upper"} :
    (Returned(X) /\ style \in Styles /\ \A i \in 1..Len(words) : Len(words[i]) >= 2)
      => result = Render(words, StyleOf(X))

\* C2 witness: to_camel_case has converted two two-letter words written in
\* CONSTANT_CASE.
C2_Witness ==
  /\ Returned("camel")
  /\ style = "UPPER_UNDERSCORE"
  /\ words = <<<<"a", "a">>, <<"b", "b">>>>
  /\ result = <<"a", "a", "B", "b">>

\* C3: is_X answers true exactly when to_X returns its argument unchanged;
\* "a-b" is accepted by is_lower_case and is_kebab_case and by no other.
C3_FixedPointAgreement ==
  \A X \in Conventions :
    Answered(X) =>
      /\ accepted <=> (to_case(X, string) = string)
      /\ string = <<"a", "-", "b">> => (accepted <=> X \in {"lower", "kebab"})

\* C3 witness: is_kebab_case has accepted "a-b".
C3_Witness ==
  Answered("kebab") /\ string = <<"a", "-", "b">> /\ accepted

\* C4: on letters and separators, replacing a separator of the input by any
\* other separator does not change what a normalizer-based conversion returns.
C4_SeparatorFungibility ==
  \A X \in Normalized :
    (Returned(X) /\ LettersAndSeparators(string)) =>
      \A i \in 1..Len(string), c \in Separators :
        string[i] \in Separators => to_case(X, [string EXCEPT ![i] = c]) = result

\* C4 witness: to_snake_case has converted a string with a hyphen and a space.
C4_Witness ==
  /\ Returned("snake")
  /\ string = <<"a", "-", " ">>
  /\ result = <<"a", "_", "_">>

\* C5: the strings to_camel_case and to_pascal_case return contain no
\* separator.
C5_NoSeparatorInCamelOrPascal ==
  \A X \in {"camel", "pascal"} : Returned(X) => NoSeparator(result)

\* C6: for every lowercase character directly followed by an uppercase one
\* in the normalizer's input, its output has the first, then exactly one
\* separator, then the second.
C6_BoundaryInsertion ==
  BreakCamelDone =>
    \A i \in 1..Len(Swapped) :
      CamelBoundary(Swapped, i) =>
        /\ Pos(Swapped, i) + 2 <= Len(out)
        /\ out[Pos(Swapped, i)] = Swapped[i]
        /\ out[Pos(Swapped, i) + 1] = separator_of(fn)
        /\ out[Pos(Swapped, i) + 2] = Swapped[i + 1]

\* C6 witness: break_camel has split "aB".
C6_Witness ==
  /\ BreakCamelDone
  /\ fn = "kebab"
  /\ string = <<"a", "B">>
  /\ out = <<"a", "-", "B">>

\* C7: a non-empty string returned by to_camel_case for a non-empty input
\* starts with a character that lowercasing leaves alone, one returned by
\* to_pascal_case with a character that uppercasing leaves alone.
C7_FirstCharacterCase ==
  /\ (Returned("camel") /\ string # <<>> /\ result # <<>>)
       => to_lowercase(result[1]) = <<result[1]>>
  /\ (Returned("pascal") /\ string # <<>> /\ result # <<>>)
       => to_uppercase(result[1]) = <<result[1]>>

\* C8: two adjacent input characters that are not a lowercase one followed
\* by an uppercase one stay adjacent in the normalizer's output; "ABc" and
\* "a1B" come out as they went in.
C8_OnlyLowerUpperBreaks ==
  BreakCamelDone =>
    /\ \A i \in 1..(Len(Swapped) - 1) :
         ~ CamelBoundary(Swapped, i) =>
           /\ Pos(Swapped, i) + 1 <= Len(out)
           /\ out[Pos(Swapped, i)] = Swapped[i]
           /\ out[Pos(Swapped, i) + 1] = Swapped[i + 1]
    /\ Swapped \in {<<"A", "B", "b">>, <<"a", "1", "B">>} => out = Swapped

\* C8 witness: break_camel has passed "a1B" through unsplit.
C8_Witness ==
  /\ BreakCamelDone
  /\ string = <<"a", "1", "B">>
  /\ out = <<"a", "1", "B">>

\* C9: break_camel has no break pending once its input is exhausted, and on
\* ASCII input to_snake_case, to_kebab_case, to_sentence_case and
\* to_constant_case return one character per input character (a separator
\* for a separator, the folded character otherwise) plus one separator per
\* camel boundary.
C9_SeparatorsPreserved ==
  /\ (pc = "break_camel" /\ iter = <<>>) => ~ br
  /\ \A X \in Normalized \ Capitalized :
       (Returned(X) /\ IsAscii(string)) =>
         /\ Len(result) = Len(string)
                          + Cardinality({j \in 1..Len(string) : CamelBoundary(string, j)})
         /\ \A i \in 1..Len(string) :
              <<result[Pos(string, i)]>> =
                IF string[i] \in Separators THEN <<separator_of(X)>>
                ELSE apply(fold_of(X), string[i])

\* C9 witness: to_constant_case has kept a leading, a doubled and a trailing
\* separator.
C9_Witness ==
  \/ /\ Returned("constant")
     /\ string = <<"-", " ", "a">>
     /\ result = <<"_", "_", "A">>
  \/ /\ Returned("snake")
     /\ string = <<"a", "B", "-">>
     /\ result = <<"a", "_", "b", "_">>

\* C10: in what to_title_case and to_train_case return for ASCII input, a
\* letter is uppercase exactly when it is first or directly after a
\* separator, and lowercasing the result gives what was handed to
\* capitalize_words (separators and all).
C10_WordCapitalization ==
  \A X \in Capitalized :
    (Returned(X) /\ IsAscii(string)) =>
      /\ \A i \in 1..Len(result) :
           result[i] \in Letters =>
             (result[i] \in Upper <=> (i = 1 \/ result[i - 1] \in Separators))
      /\ FlatMap(result, "to_lowercase") =
           FlatMap(BreakCamel(Swapped, separator_of(X), FALSE), "to_lowercase")

\* C10 witness: to_train_case has capitalized the one word after a leading
\* run of two separators.
C10_Witness ==
  /\ Returned("train")
  /\ string = <<"_", " ", "a">>
  /\ result = <<"-", "-", "A">>

\* Every word of the rendered word sequence has at least two letters.
LongWords == \A i \in 1..Len(words) : Len(words[i]) >= 2

\* C11 (as stated): a word sequence written in camelCase is returned
\* unchanged by to_camel_case, and written in PascalCase by to_pascal_case.
C11_CamelFixedPointAllWords ==
  /\ (Returned("camel") /\ style = "camel") => result = string
  /\ (Returned("pascal") /\ style = "Pascal") => result = string

\* C11 (amended): the same for words of at least two letters; and in every
\* call of scan_to_camel an uppercase letter that follows an uppercase
\* letter (or, in to_camel_case, starts the input) comes out lowercased.
C11_CamelFixedPointLongWords ==
  [][/\ (pc = "collected" /\ fn = "camel" /\ style = "camel" /\ LongWords)
          => result' = string
     /\ (pc = "collected" /\ fn = "pascal" /\ style = "Pascal" /\ LongWords)
          => result' = string
     /\ (/\ pc = "scan"
         /\ iter # <<>>
         /\ Head(iter) \in Upper
         /\ \/ state[2] \in Upper
            \/ fn = "camel" /\ state[2] = None)
          => out' = out \o to_lowercase(Head(iter))]_vars

\* C11 witness: to_camel_case has returned the camelCase of two two-letter
\* words as it was.
C11_Witness ==
  /\ Returned("camel")
  /\ style = "camel"
  /\ words = <<<<"a", "a">>, <<"b", "b">>>>
  /\ string = <<"a", "a", "B", "b">>
  /\ result = string

\* C12: every call returns: is_X gives its answer (and so to_X its String)
\* whatever the input; a call of CapitalizeWords::next re-enters its loop at
\* most once, and then returns the first character of the expansion it has
\* just armed; a call of BreakCamel::next takes at most one character from
\* its source, and none when it emits the pending separator.
C12_TotalAndTerminating ==
  /\ <>(pc = "answer")
  /\ [][/\ pc = "capitalize_words" =>
            LET r == CapitalizeWordsNext(iter, cap, upper) IN
            /\ r.passes <= 1
            /\ r.passes = 1 =>
                 /\ cap /\ iter # <<>>
                 /\ r.item = Head(to_uppercase(Head(iter)))
                 /\ Len(iter) - Len(r.iter) = 1
            /\ r.passes = 0 => Len(iter) - Len(r.iter) <= 1
        /\ (pc = "break_camel" /\ pc' = "break_camel") =>
            /\ Len(iter) - Len(iter') \in {0, 1}
            /\ br => (iter' = iter /\ ~ br')
            /\ Len(out') = Len(out) + 1]_vars

\* C12 witness: to_title_case has returned after CapitalizeWords::next went
\* round its loop for the two-character expansion of "ß".
C12_Witness ==
  /\ Answered("title")
  /\ string = <<"ß", "a", "B">>
  /\ result = <<"S", "S", "a", " ", "B">>
  /\ ~ accepted

\* An uppercase expansion is being handed out by CapitalizeWords.
Draining == pc = "capitalize_words" /\ upper.is_some /\ upper.chars # <<>>

\* C13: when CapitalizeWords::next capitalizes a character, it emits the
\* first character of its uppercase mapping and keeps the rest, with cap
\* cleared; while characters are kept, each call emits the next of them and
\* takes nothing from the source, cap staying cleared; the source character
\* after the expansion is then emitted as it is.  So to_title_case("ßa") is
\* "SSa".
C13_ExpansionDrainedInOrder ==
  [][/\ (pc = "capitalize_words" /\ ~ Draining /\ cap /\ iter # <<>>) =>
          /\ out' = Append(out, Head(to_uppercase(Head(iter))))
          /\ upper' = SomeUpper(Tail(to_uppercase(Head(iter))))
          /\ iter' = Tail(iter)
          /\ ~ cap'
     /\ Draining =>
          /\ ~ cap /\ ~ cap'
          /\ iter' = iter
          /\ out' = Append(out, Head(upper.chars))
          /\ upper' = SomeUpper(Tail(upper.chars))
     /\ (pc = "capitalize_words" /\ upper.is_some /\ ~ Draining /\ iter # <<>>) =>
          /\ ~ cap
          /\ out' = Append(out, Head(iter))
          /\ iter' = Tail(iter)
     /\ (pc = "collected" /\ fn = "title" /\ string = <<"ß", "a">>) =>
          result' = <<"S", "S", "a">>]_vars

\* C13 witness: to_title_case has returned "SSa" for "ßa".
C13_Witness ==
  /\ Returned("title")
  /\ string = <<"ß", "a">>
  /\ result = <<"S", "S", "a">>

\* The two strings have the same length and the same characters from the
\* second on.
SameButFirst(s, t) == Len(s) = Len(t) /\ \A i \in 2..Len(s) : s[i] = t[i]

\* The argument is a non-empty ASCII string that does not start with a
\* separator.
StartsWithNonSeparator == string # <<>> /\ IsAscii(string) /\ string[1] \notin Separators

\* C14: for a non-empty ASCII input that does not start with a separator,
\* what to_camel_case and to_pascal_case return differ at most in the first
\* character, the lowercase form of the input's first character in one and
\* its uppercase form in the other; and once the scan has taken the first
\* character its state is (false, that character) in both.
C14_CamelPascalDifferInFirstOnly ==
  StartsWithNonSeparator =>
    /\ Returned("camel") =>
         /\ SameButFirst(result, to_pascal_case(string))
         /\ <<result[1]>> = to_lowercase(string[1])
         /\ <<to_pascal_case(string)[1]>> = to_uppercase(string[1])
    /\ Returned("pascal") =>
         /\ SameButFirst(result, to_camel_case(string))
         /\ <<result[1]>> = to_uppercase(string[1])
         /\ <<to_camel_case(string)[1]>> = to_lowercase(string[1])
    /\ (pc = "scan" /\ Len(iter) = Len(string) - 1) => state = <<FALSE, string[1]>>

\* C14 witness: to_pascal_case has returned "AB" for "a-b", for which
\* to_camel_case returns "aB".
C14_Witness ==
  /\ Returned("pascal")
  /\ string = <<"a", "-", "b">>
  /\ result = <<"A", "B">>
  /\ to_camel_case(string) = <<"a", "B">>

====
